---- MODULE Spec2Model ----
(***************************************************************************)
(* Model of the benchmark runner (runtime_logger.py) and of the CPU-usage  *)
(* sampler it starts in a thread for every trial (cpuusage_monitor.py),    *)
(* specification Spec; of the analyze phase of runtime_logger.py and       *)
(* log_analyzer.py on one raw log, specification AnalyzeSpec; and of       *)
(* organize_log.py on one results directory, specification OrganizeSpec.   *)
(*                                                                         *)
(* Time is discrete.  A tick is 1/TicksPerSecond of a second.  Statements  *)
(* take no time; time.sleep(), the spawn delay of the workload and the     *)
(* lifetime of the workload take time.  Tick is enabled only when no       *)
(* statement is ready to run.                                              *)
(***************************************************************************)
EXTENDS Integers, Sequences, FiniteSets, TLC

(* ---- bounds of the model ---- *)
NumBenchmarks == 2      \* len(config.benchmarks)
Iterations == 2         \* config.iterations
MaxLife == 4            \* longest lifetime of the parsecmgmt process, in ticks
MaxSpawnDelay == 1      \* longest delay between check_output and the process appearing, in ticks
MaxChildren == 1        \* most children the parsecmgmt process has
TicksPerSecond == 2     \* resolution of the clock
MaxItems == 5           \* most items (marker lines and lines) of a raw log
MaxEntries == 2         \* most result files of a results directory

(* ---- program constants ---- *)
PollSeconds == 1        \* cpuusage_monitor.py:42   time.sleep(1)
IntervalSeconds == 1    \* runtime_logger.py:46     args=(..., 1.0, "silent")
NumCpus == 2            \* psutil.cpu_count() of the machine

Benchmarks == 1..NumBenchmarks
Threads == 1..(NumBenchmarks * Iterations)
Children == 1..MaxChildren
Target == 0             \* index of the target in a process group; children are 1..MaxChildren

VARIABLES
    mode,       \* config.mode: "run", "analyze" or "both"
    mpc,        \* position of the main flow of runtime_logger
    bench,      \* index of the benchmark main is at
    iter,       \* i of repeat_benchmark's for loop
    trial,      \* number of monitor threads created so far
    output,     \* output captured by check_output in run_benchmark_once
    raw,        \* raw[b]: content of the raw log of benchmark b
    sink,       \* sink[b]: content of the cpuusage csv of benchmark b
    analyzed,   \* benchmarks whose analyze phase has run
    errors,     \* logging.error calls made so far: <<who, what>>
    wstate,     \* "none", "spawning", "running", "exited": the parsecmgmt process
    wpid,       \* number of workload invocations issued; also the pid of the latest
    spawnLeft,  \* ticks until the issued process appears in the process table
    wlife,      \* lifetime of the latest parsecmgmt process, in ticks
    wleft,      \* ticks the running process has left
    wstatus,    \* exit status of the latest invocation
    kids,       \* children of the running parsecmgmt process that are alive
    spc,        \* spc[t]: position of monitor thread t
    spid,       \* spid[t]: pid located by thread t (0: none)
    sgroup,     \* sgroup[t]: process_group of thread t
    sidx,       \* sidx[t]: index of the loop over process_group
    ssleep,     \* ssleep[t]: ticks left of the time.sleep thread t is in
    sfile,      \* sfile[t]: "closed" or "open", the csv file object of thread t
    slog,       \* slog[t]: log_file argument of thread t (the benchmark of the path)
    sopenfail,  \* sopenfail[t]: open(log_file) of thread t has failed
    late,       \* late[t]: rows thread t has written since its target exited
    impl,       \* the program whose analyze phase runs: runtime_logger or log_analyzer
    apc,        \* position of the analyze phase
    rawtext,    \* content of the raw log that is analyzed
    results,    \* raw_content, then processed_content, of main
    processed,  \* the processed csv file
    summary,    \* the summary csv file
    aexc,       \* the exception that left the analyze phase, "none" if none
    rdir,       \* organize_log: the files of results_dir, each a name and a size
    listing,    \* organize_log: filename_heads, in the order of the loop
    opc,        \* organize_log: position of main
    oidx,       \* organize_log: index in listing of the entry the loop is at
    ldirs,      \* organize_log: the directories made under log_dir
    lfiles,     \* organize_log: the files under log_dir, each with the file it copies
    ologs       \* organize_log: the logging.error calls, each with its entry

mainvars == <<mode, mpc, bench, iter, trial, output, raw, analyzed>>
workvars == <<wstate, wpid, spawnLeft, wlife, wleft, wstatus, kids>>
sampvars == <<spc, spid, sgroup, sidx, ssleep, sfile, slog, sopenfail, late>>
runvars == <<mainvars, workvars, sampvars, sink, errors>>
anavars == <<impl, apc, rawtext, results, processed, summary, aexc>>
orgvars == <<rdir, listing, opc, oidx, ldirs, lfiles, ologs>>
offvars == <<anavars, orgvars>>     \* the variables of the programs run off line
vars == <<runvars, offvars>>

(* ---- contents of files ---- *)
Out(k) == <<"out", k>>              \* captured output of the k-th invocation
NL == <<"nl">>                      \* the '\n' save_raw_output adds
Stale == <<"stale">>                \* content left by an earlier run
Header(t) == [kind |-> "header", by |-> t, fields |-> 1 + NumCpus]
Row(t) == [kind |-> "row", by |-> t, fields |-> 1 + NumCpus]
StaleRow == [kind |-> "stale", by |-> 0, fields |-> 0]

OneSecond == PollSeconds * TicksPerSecond
Interval == IntervalSeconds * TicksPerSecond

\* mutant: the sleep ends after half its time
SleepFor_Short(n) == n \div 2

\* time.sleep(n): the thread is suspended for n ticks
SleepFor(n) == n

(* ---- the process table ---- *)
\* psutil.pid_exists(pid)
PidExists(pid) == wstate = "running" /\ wpid = pid

\* the process pid has exited
Exited(pid) == wpid > pid \/ (wpid = pid /\ wstate = "exited")

\* get_parsecmgmt_pid(): the pid of the process named 'parsecmgmt', 0 for None
get_parsecmgmt_pid == IF wstate = "running" THEN wpid ELSE 0

\* proc.is_running() / the process behind a psutil.Process handle still exists
MemberAlive(pid, m) ==
    IF m = Target THEN PidExists(pid) ELSE PidExists(pid) /\ m \in kids

\* the elements of a sequence
Range(q) == {q[i] : i \in 1..Len(q)}

RECURSIVE SetToSeq(_)
SetToSeq(S) ==
    IF S = {} THEN <<>>
    ELSE LET m == CHOOSE x \in S : \A y \in S : x <= y
         IN <<m>> \o SetToSeq(S \ {m})

\* the state runtime_logger starts in
RunInit ==
    /\ mode \in {"run", "analyze", "both"}
    /\ mpc = "benchmark"
    /\ bench = 1
    /\ iter = 0
    /\ trial = 0
    /\ output = <<>>
    /\ \/ /\ raw = [b \in Benchmarks |-> <<>>]          \* a fresh log directory
          /\ sink = [b \in Benchmarks |-> <<>>]
       \/ /\ raw = [b \in Benchmarks |-> <<Stale>>]     \* the files of an earlier run
          /\ sink = [b \in Benchmarks |-> <<StaleRow>>]
    /\ analyzed = {}
    /\ errors = {}
    /\ wstate = "none"
    /\ wpid = 0
    /\ spawnLeft = 0
    /\ wlife = 0
    /\ wleft = 0
    /\ wstatus = 0
    /\ kids = {}
    /\ spc = [t \in Threads |-> "idle"]
    /\ spid = [t \in Threads |-> 0]
    /\ sgroup = [t \in Threads |-> <<>>]
    /\ sidx = [t \in Threads |-> 0]
    /\ ssleep = [t \in Threads |-> 0]
    /\ sfile = [t \in Threads |-> "closed"]
    /\ slog = [t \in Threads |-> 0]
    /\ sopenfail = [t \in Threads |-> FALSE]
    /\ late = [t \in Threads |-> 0]

(***************************************************************************)
(* runtime_logger.py: main, repeat_benchmark, run_benchmark_once           *)
(***************************************************************************)

\* delete_file(file_path): the file is gone afterwards
delete_file(content) == <<>>

\* main, lines 157-166: next benchmark; in run mode the old raw file is deleted
MainBenchmark ==
    /\ mpc = "benchmark"
    /\ IF bench > NumBenchmarks
       THEN /\ mpc' = "exit"
            /\ UNCHANGED <<raw, iter>>
       ELSE IF mode \in {"run", "both"}
       THEN /\ raw' = [raw EXCEPT ![bench] = delete_file(raw[bench])]
            /\ iter' = 0
            /\ mpc' = "repeat"
       ELSE /\ mpc' = "analyze"
            /\ UNCHANGED <<raw, iter>>
    /\ UNCHANGED <<offvars, mode, bench, trial, output, analyzed, workvars, sampvars, sink, errors>>

\* repeat_benchmark, line 37: for i in range(iterations)
MainRepeat ==
    /\ mpc = "repeat"
    /\ IF iter < Iterations
       THEN /\ mpc' = "start_thread"
            /\ UNCHANGED bench
       ELSE IF mode = "both"
       THEN /\ mpc' = "analyze"
            /\ UNCHANGED bench
       ELSE /\ mpc' = "benchmark"
            /\ bench' = bench + 1
    /\ UNCHANGED <<offvars, mode, iter, trial, output, raw, analyzed, workvars, sampvars, sink, errors>>

\* mutant: the monitor thread is created but never started
MainStartThread_NotStarted ==
    /\ mpc = "start_thread"
    /\ trial' = trial + 1
    /\ mpc' = "exec"
    /\ UNCHANGED <<offvars, mode, bench, iter, output, raw, analyzed, workvars, sink, errors,
                   sampvars>>

\* run_benchmark_once, lines 46-47: the monitor thread is created and started
MainStartThread ==
    /\ mpc = "start_thread"
    /\ trial' = trial + 1
    /\ spc' = [spc EXCEPT ![trial + 1] = "main_locate"]
    /\ slog' = [slog EXCEPT ![trial + 1] = bench]
    /\ mpc' = "exec"
    /\ UNCHANGED <<offvars, mode, bench, iter, output, raw, analyzed, workvars, sink, errors,
                   spid, sgroup, sidx, ssleep, sfile, sopenfail, late>>

\* run_benchmark_once, lines 48-49: check_output issues the command
MainExec ==
    /\ mpc = "exec"
    /\ wpid' = wpid + 1
    /\ wstate' = "spawning"
    /\ \E d \in 0..MaxSpawnDelay : spawnLeft' = d
    /\ kids' = {}
    /\ wlife' = 0
    /\ wleft' = 0
    /\ wstatus' = 0
    /\ mpc' = "wait"
    /\ UNCHANGED <<offvars, mode, bench, iter, trial, output, raw, analyzed, sampvars, sink, errors>>

\* mutant: the exit status is not checked
RaisesCalledProcessError_Unchecked(status) == FALSE

\* subprocess.check_output raises CalledProcessError on a non-zero exit status
RaisesCalledProcessError(status) == status /= 0

\* run_benchmark_once, line 49 returning, or lines 52-54 on CalledProcessError
MainWaitReturn ==
    /\ mpc = "wait"
    /\ wstate = "exited"
    /\ IF RaisesCalledProcessError(wstatus)
       THEN /\ errors' = errors \cup {<<"run_benchmark_once", wpid>>}
            /\ mpc' = "raised"
            /\ UNCHANGED output
       ELSE /\ output' = Out(wpid)
            /\ mpc' = "join"
            /\ UNCHANGED errors
    /\ UNCHANGED <<offvars, mode, bench, iter, trial, raw, analyzed, workvars, sampvars, sink>>

\* mutant: the thread is not waited for
JoinReturns_NoWait(t) == TRUE

\* threading.Thread.join(): returns once the thread has terminated
JoinReturns(t) == spc[t] = "done"

\* run_benchmark_once, lines 50-55: join the monitor thread, return output
MainJoin ==
    /\ mpc = "join"
    /\ JoinReturns(trial)
    /\ mpc' = "save"
    /\ UNCHANGED <<offvars, mode, bench, iter, trial, output, raw, analyzed, workvars, sampvars,
                   sink, errors>>

\* mutant: the raw file is opened for writing, not for appending
save_raw_output_Overwrite(content, out) == <<out, NL>>

\* save_raw_output, lines 103-107: open(filename, 'a'), write output and '\n'
save_raw_output(content, out) == content \o <<out, NL>>

\* repeat_benchmark, line 39, and the end of the loop body
MainSave ==
    /\ mpc = "save"
    /\ raw' = [raw EXCEPT ![bench] = save_raw_output(raw[bench], output)]
    /\ iter' = iter + 1
    /\ mpc' = "repeat"
    /\ UNCHANGED <<offvars, mode, bench, trial, output, analyzed, workvars, sampvars, sink, errors>>

\* main, lines 168-174: the analyze phase of a benchmark (reads the raw log
\* only); it returns, or one of its calls raises and the exception leaves main
MainAnalyze ==
    /\ mpc = "analyze"
    /\ \/ /\ analyzed' = analyzed \cup {bench}
          /\ bench' = bench + 1
          /\ mpc' = "benchmark"
       \/ /\ mpc' = "analyze_raised"
          /\ UNCHANGED <<analyzed, bench>>
    /\ UNCHANGED <<offvars, mode, iter, trial, output, raw, workvars, sampvars, sink, errors>>

MainStep ==
    \/ MainBenchmark
    \/ MainRepeat
    \/ MainStartThread
    \/ MainExec
    \/ MainWaitReturn
    \/ MainJoin
    \/ MainSave
    \/ MainAnalyze

MainReady ==
    \/ mpc \in {"benchmark", "repeat", "start_thread", "exec", "save", "analyze"}
    \/ mpc = "wait" /\ wstate = "exited"
    \/ mpc = "join" /\ JoinReturns(trial)

(***************************************************************************)
(* The workload: the process named 'parsecmgmt' and its children           *)
(***************************************************************************)

\* the process appears in the process table, with a lifetime and children
WorkloadAppear ==
    /\ wstate = "spawning"
    /\ spawnLeft = 0
    /\ wstate' = "running"
    /\ \E l \in 0..MaxLife : wlife' = l /\ wleft' = l
    /\ \E k \in SUBSET Children : kids' = k
    /\ UNCHANGED <<wpid, spawnLeft, wstatus, mainvars, offvars, sampvars, sink, errors>>

\* a child of parsecmgmt exits
ChildExit ==
    /\ wstate = "running"
    /\ \E c \in kids : kids' = kids \ {c}
    /\ UNCHANGED <<wstate, wpid, spawnLeft, wlife, wleft, wstatus, mainvars, offvars, sampvars,
                   sink, errors>>

\* parsecmgmt, a shell script, has waited for the programs it ran and exits
\* with some status
TargetExit ==
    /\ wstate = "running"
    /\ wleft = 0
    /\ kids = {}
    /\ wstate' = "exited"
    /\ \E s \in {0, 1} : wstatus' = s
    /\ UNCHANGED <<wpid, spawnLeft, wlife, wleft, kids, mainvars, offvars, sampvars, sink, errors>>

WorkloadStep == WorkloadAppear \/ ChildExit \/ TargetExit

WorkloadReady ==
    \/ wstate = "spawning" /\ spawnLeft = 0
    \/ wstate = "running" /\ wleft = 0

(***************************************************************************)
(* cpuusage_monitor.py: main, wait_for_parsecmgmt, get_process_group,      *)
(* monitor_cpu_usage, run by monitor thread t                              *)
(***************************************************************************)

\* a thread whose target function has returned, or died of an exception
ThreadDead(t) == spc[t] \in {"done", "raised"}

\* the target function of thread t returns: the thread ends, its locals are gone
Finish(t) ==
    /\ spc' = [spc EXCEPT ![t] = "done"]
    /\ spid' = [spid EXCEPT ![t] = 0]
    /\ sgroup' = [sgroup EXCEPT ![t] = <<>>]
    /\ sidx' = [sidx EXCEPT ![t] = 0]
    /\ ssleep' = [ssleep EXCEPT ![t] = 0]
    /\ late' = [late EXCEPT ![t] = 0]

\* mutant: NoSuchProcess is not caught
GpgExcept_Uncaught(exc) == "raised"

\* get_process_group, lines 67-69: except psutil.NoSuchProcess returns [],
\* any other exception leaves the function
GpgExcept(exc) == IF exc = "NoSuchProcess" THEN "mon_group" ELSE "raised"

\* the outcome of a psutil call on the process behind a handle
Psutil(pid, m) == IF MemberAlive(pid, m) THEN "ok" ELSE "NoSuchProcess"

\* main, lines 111-112: pid = get_parsecmgmt_pid(); if pid is None: ...
SampMainLocate(t) ==
    /\ spc[t] = "main_locate"
    /\ LET pid == get_parsecmgmt_pid
       IN /\ spid' = [spid EXCEPT ![t] = pid]
          /\ spc' = [spc EXCEPT ![t] = IF pid = 0 THEN "wait_locate" ELSE "gpg_process"]
    /\ UNCHANGED <<sgroup, sidx, ssleep, sfile, slog, sopenfail, late, mainvars, offvars, workvars,
                   sink, errors>>

\* wait_for_parsecmgmt, lines 40-41: the first poll of the wait loop
SampWaitLocate(t) ==
    /\ spc[t] = "wait_locate"
    /\ LET pid == get_parsecmgmt_pid
       IN /\ spid' = [spid EXCEPT ![t] = pid]
          /\ IF pid = 0
             THEN /\ spc' = [spc EXCEPT ![t] = "wait_sleep"]
                  /\ ssleep' = [ssleep EXCEPT ![t] = SleepFor(OneSecond)]
             ELSE /\ spc' = [spc EXCEPT ![t] = "gpg_process"]
                  /\ UNCHANGED ssleep
    /\ UNCHANGED <<sgroup, sidx, sfile, slog, sopenfail, late, mainvars, offvars, workvars, sink, errors>>

\* wait_for_parsecmgmt, lines 41-45: time.sleep(1) is over, poll again
SampWaitSleep(t) ==
    /\ spc[t] = "wait_sleep"
    /\ ssleep[t] = 0
    /\ LET pid == get_parsecmgmt_pid
       IN /\ spid' = [spid EXCEPT ![t] = pid]
          /\ IF pid = 0
             THEN /\ ssleep' = [ssleep EXCEPT ![t] = SleepFor(OneSecond)]
                  /\ UNCHANGED spc
             ELSE /\ spc' = [spc EXCEPT ![t] = "gpg_process"]
                  /\ UNCHANGED ssleep
    /\ UNCHANGED <<sgroup, sidx, sfile, slog, sopenfail, late, mainvars, offvars, workvars, sink, errors>>

\* what get_process_group does when a psutil call raised exc
GpgRaise(t, exc) ==
    /\ spc' = [spc EXCEPT ![t] = GpgExcept(exc)]
    /\ sgroup' = [sgroup EXCEPT ![t] = <<>>]
    /\ errors' = errors \cup {<<"get_process_group", t>>}
    /\ UNCHANGED sidx

\* get_process_group, line 60: process = psutil.Process(pid)
SampGpgProcess(t) ==
    /\ spc[t] = "gpg_process"
    /\ IF Psutil(spid[t], Target) = "ok"
       THEN /\ spc' = [spc EXCEPT ![t] = "gpg_children"]
            /\ UNCHANGED <<sgroup, sidx, errors>>
       ELSE GpgRaise(t, Psutil(spid[t], Target))
    /\ UNCHANGED <<spid, ssleep, sfile, slog, sopenfail, late, mainvars, offvars, workvars, sink>>

\* get_process_group, lines 61-63: children(recursive=True), [process] + children
SampGpgChildren(t) ==
    /\ spc[t] = "gpg_children"
    /\ IF Psutil(spid[t], Target) = "ok"
       THEN /\ sgroup' = [sgroup EXCEPT ![t] = <<Target>> \o SetToSeq(kids)]
            /\ sidx' = [sidx EXCEPT ![t] = 1]
            /\ spc' = [spc EXCEPT ![t] = "gpg_names"]
            /\ UNCHANGED errors
       ELSE GpgRaise(t, Psutil(spid[t], Target))
    /\ UNCHANGED <<spid, ssleep, sfile, slog, sopenfail, late, mainvars, offvars, workvars, sink>>

\* get_process_group, lines 64-65: p.name() of the next member of the group
SampGpgNames(t) ==
    /\ spc[t] = "gpg_names"
    /\ LET m == sgroup[t][sidx[t]]
       IN IF Psutil(spid[t], m) = "ok"
          THEN /\ IF sidx[t] < Len(sgroup[t])
                  THEN /\ sidx' = [sidx EXCEPT ![t] = sidx[t] + 1]
                       /\ UNCHANGED spc
                  ELSE /\ spc' = [spc EXCEPT ![t] = "gpg_return"]
                       /\ UNCHANGED sidx
               /\ UNCHANGED <<sgroup, errors>>
          ELSE GpgRaise(t, Psutil(spid[t], m))
    /\ UNCHANGED <<spid, ssleep, sfile, slog, sopenfail, late, mainvars, offvars, workvars, sink>>

\* get_process_group, line 66: return process_group
SampGpgReturn(t) ==
    /\ spc[t] = "gpg_return"
    /\ spc' = [spc EXCEPT ![t] = "mon_group"]
    /\ UNCHANGED <<spid, sgroup, sidx, ssleep, sfile, slog, sopenfail, late, mainvars, offvars, workvars,
                   sink, errors>>

\* mutant: the emptiness of process_group is not checked
SampMonGroup_NoCheck(t) ==
    /\ spc[t] = "mon_group"
    /\ spc' = [spc EXCEPT ![t] = "mon_open"]
    /\ UNCHANGED <<errors, spid, sgroup, sidx, ssleep, late>>
    /\ UNCHANGED <<sfile, slog, sopenfail, mainvars, offvars, workvars, sink>>

\* monitor_cpu_usage, lines 84-89: if not process_group: log the error, return
SampMonGroup(t) ==
    /\ spc[t] = "mon_group"
    /\ IF sgroup[t] = <<>>
       THEN /\ errors' = errors \cup {<<"monitor_cpu_usage", t>>}
            /\ Finish(t)
       ELSE /\ spc' = [spc EXCEPT ![t] = "mon_open"]
            /\ UNCHANGED <<errors, spid, sgroup, sidx, ssleep, late>>
    /\ UNCHANGED <<sfile, slog, sopenfail, mainvars, offvars, workvars, sink>>

\* mutant: the failure of open is swallowed without a log
OpenFailed_Unlogged(t) ==
    /\ sopenfail' = [sopenfail EXCEPT ![t] = TRUE]
    /\ Finish(t)
    /\ UNCHANGED <<sink, sfile, errors>>

\* monitor_cpu_usage, lines 106-107 after a failed open: except Exception logs,
\* the function returns
OpenFailed(t) ==
    /\ errors' = errors \cup {<<"monitor_cpu_usage", t>>}
    /\ sopenfail' = [sopenfail EXCEPT ![t] = TRUE]
    /\ Finish(t)
    /\ UNCHANGED <<sink, sfile>>

\* mutant: the csv file is opened for appending
OpenSucceeded_Append(t) ==
    /\ sink' = [sink EXCEPT ![slog[t]] = Append(sink[slog[t]], Header(t))]
    /\ sfile' = [sfile EXCEPT ![t] = "open"]
    /\ spc' = [spc EXCEPT ![t] = "mon_while"]
    /\ UNCHANGED <<errors, sopenfail, spid, sgroup, sidx, ssleep, late>>

\* mutant: the open keeps the data rows that are in the file
OpenSucceeded_KeepRows(t) ==
    /\ sink' = [sink EXCEPT ![slog[t]] =
                   <<Header(t)>> \o SelectSeq(sink[slog[t]], LAMBDA r : r.kind = "row")]
    /\ sfile' = [sfile EXCEPT ![t] = "open"]
    /\ spc' = [spc EXCEPT ![t] = "mon_while"]
    /\ UNCHANGED <<errors, sopenfail, spid, sgroup, sidx, ssleep, late>>

\* monitor_cpu_usage, lines 92-95: open(log_file, mode='w') and the header row
OpenSucceeded(t) ==
    /\ sink' = [sink EXCEPT ![slog[t]] = <<Header(t)>>]
    /\ sfile' = [sfile EXCEPT ![t] = "open"]
    /\ spc' = [spc EXCEPT ![t] = "mon_while"]
    /\ UNCHANGED <<errors, sopenfail, spid, sgroup, sidx, ssleep, late>>

\* monitor_cpu_usage, lines 91-95: the open either succeeds or raises OSError
SampMonOpen(t) ==
    /\ spc[t] = "mon_open"
    /\ \/ OpenSucceeded(t)
       \/ OpenFailed(t)
    /\ UNCHANGED <<slog, mainvars, offvars, workvars>>

\* mutant: the loop does not look at the target
SampMonWhile_NoCheck(t) ==
    /\ spc[t] = "mon_while"
    /\ sidx' = [sidx EXCEPT ![t] = 1]
    /\ spc' = [spc EXCEPT ![t] = "mon_is_running"]
    /\ UNCHANGED <<sfile, spid, sgroup, ssleep, late>>
    /\ UNCHANGED <<slog, sopenfail, mainvars, offvars, workvars, sink, errors>>

\* monitor_cpu_usage, line 97: while psutil.pid_exists(pid); the with block
\* closes the file when the loop ends
SampMonWhile(t) ==
    /\ spc[t] = "mon_while"
    /\ IF PidExists(spid[t])
       THEN /\ sidx' = [sidx EXCEPT ![t] = 1]
            /\ spc' = [spc EXCEPT ![t] = "mon_is_running"]
            /\ UNCHANGED <<sfile, spid, sgroup, ssleep, late>>
       ELSE /\ sfile' = [sfile EXCEPT ![t] = "closed"]
            /\ Finish(t)
    /\ UNCHANGED <<slog, sopenfail, mainvars, offvars, workvars, sink, errors>>

\* line 98: the comprehension moves to the next member, or ends and line 99
\* starts time.sleep(interval)
NextMember(t) ==
    IF sidx[t] < Len(sgroup[t])
    THEN /\ sidx' = [sidx EXCEPT ![t] = sidx[t] + 1]
         /\ spc' = [spc EXCEPT ![t] = "mon_is_running"]
         /\ UNCHANGED ssleep
    ELSE /\ spc' = [spc EXCEPT ![t] = "mon_sleep"]
         /\ ssleep' = [ssleep EXCEPT ![t] = SleepFor(Interval)]
         /\ UNCHANGED sidx

\* monitor_cpu_usage, line 98: ... for proc in process_group if proc.is_running()
SampMonIsRunning(t) ==
    /\ spc[t] = "mon_is_running"
    /\ IF MemberAlive(spid[t], sgroup[t][sidx[t]])
       THEN /\ spc' = [spc EXCEPT ![t] = "mon_cpu_percent"]
            /\ UNCHANGED <<sidx, ssleep>>
       ELSE NextMember(t)
    /\ UNCHANGED <<spid, sgroup, sfile, slog, sopenfail, late, mainvars, offvars, workvars, sink, errors>>

\* monitor_cpu_usage, line 98: proc.cpu_percent(interval=0); NoSuchProcess is
\* caught by except Exception (lines 106-107) outside the loop
SampMonCpuPercent(t) ==
    /\ spc[t] = "mon_cpu_percent"
    /\ IF Psutil(spid[t], sgroup[t][sidx[t]]) = "ok"
       THEN /\ NextMember(t)
            /\ UNCHANGED <<sfile, errors, spid, sgroup, late>>
       ELSE /\ errors' = errors \cup {<<"monitor_cpu_usage", t>>}
            /\ sfile' = [sfile EXCEPT ![t] = "closed"]
            /\ Finish(t)
    /\ UNCHANGED <<slog, sopenfail, mainvars, offvars, workvars, sink>>

\* monitor_cpu_usage, lines 99-103: time.sleep(interval) is over, one row is written
SampMonSleep(t) ==
    /\ spc[t] = "mon_sleep"
    /\ ssleep[t] = 0
    /\ sink' = [sink EXCEPT ![slog[t]] = Append(sink[slog[t]], Row(t))]
    /\ late' = [late EXCEPT ![t] = IF Exited(spid[t]) THEN late[t] + 1 ELSE late[t]]
    /\ spc' = [spc EXCEPT ![t] = "mon_while"]
    /\ UNCHANGED <<spid, sgroup, sidx, ssleep, sfile, slog, sopenfail, mainvars, offvars, workvars,
                   errors>>

SamplerStep(t) ==
    \/ SampMainLocate(t)
    \/ SampWaitLocate(t)
    \/ SampWaitSleep(t)
    \/ SampGpgProcess(t)
    \/ SampGpgChildren(t)
    \/ SampGpgNames(t)
    \/ SampGpgReturn(t)
    \/ SampMonGroup(t)
    \/ SampMonOpen(t)
    \/ SampMonWhile(t)
    \/ SampMonIsRunning(t)
    \/ SampMonCpuPercent(t)
    \/ SampMonSleep(t)

Sleeping(t) == spc[t] \in {"wait_sleep", "mon_sleep"}

SamplerReady(t) ==
    \/ spc[t] \notin {"idle", "done", "raised", "wait_sleep", "mon_sleep"}
    \/ Sleeping(t) /\ ssleep[t] = 0

(***************************************************************************)
(* Time                                                                    *)
(***************************************************************************)
Dec(n) == IF n > 0 THEN n - 1 ELSE 0

\* one tick passes: nothing is ready to run and something is waiting for time
Tick ==
    /\ ~MainReady
    /\ ~WorkloadReady
    /\ \A t \in Threads : ~SamplerReady(t)
    /\ \/ wstate = "spawning"
       \/ wstate = "running"
       \/ \E t \in Threads : Sleeping(t)
    /\ spawnLeft' = IF wstate = "spawning" THEN Dec(spawnLeft) ELSE spawnLeft
    /\ wleft' = IF wstate = "running" THEN Dec(wleft) ELSE wleft
    /\ ssleep' = [t \in Threads |-> IF Sleeping(t) THEN Dec(ssleep[t]) ELSE ssleep[t]]
    /\ UNCHANGED <<wstate, wpid, wlife, wstatus, kids, mainvars, offvars, sink, errors,
                   spc, spid, sgroup, sidx, sfile, slog, sopenfail, late>>

(***************************************************************************)
(* The analyze phase: runtime_logger.py main lines 168-174 and             *)
(* log_analyzer.py main lines 114-120, on one raw log.  A raw log is a     *)
(* sequence of items: the two marker lines, blank lines and the lines      *)
(* parse_output looks at; a token of a line is a sequence of characters.   *)
(***************************************************************************)
Begin == [key |-> "begin", tok |-> <<>>]    \* output_start_marker
End == [key |-> "end", tok |-> <<>>]        \* section_delimiter
Blank == [key |-> "blank", tok |-> <<>>]    \* a line of white space

\* a line of an output: what it starts with (or, for "roi", contains) and
\* the token the parser reads from it
Line(k, t) == [key |-> k, tok |-> t]

(* ---- the lines of the logs that are explored ---- *)
RealLine == Line("real", <<"1", "m", "2", "s">>)    \* real 1m2s
RealNoM == Line("real", <<"6", "2", "s">>)          \* real 62s
UserLine == Line("user", <<"0", "m", "5", "s">>)    \* user 0m5s
SysLine == Line("sys", <<"0", "m", "1", "s">>)      \* sys 0m1s
RoiLine == Line("roi", <<"3", "s">>)                \* Total time spent in ROI: 3s
Items == {Begin, End, Blank, RealLine, RealNoM, UserLine, SysLine, RoiLine}

\* the sequences over S of length at most n
SeqsUpTo(S, n) == UNION {[1..k -> S] : k \in 0..n}

(* ---- Python values and calls ---- *)
\* the outcome of a call: a value, or the exception that left it
Ret(v) == [exc |-> "none", val |-> v]
Raise(e) == [exc |-> e, val |-> <<>>]

\* str.split(sep) and list splitting alike: the pieces of s between the
\* occurrences of c
RECURSIVE SplitOn(_, _)
SplitOn(s, c) ==
    IF \A i \in 1..Len(s) : s[i] /= c THEN <<s>>
    ELSE LET i == CHOOSE j \in 1..Len(s) :
                      s[j] = c /\ \A h \in 1..(j - 1) : s[h] /= c
         IN <<SubSeq(s, 1, i - 1)>> \o SplitOn(SubSeq(s, i + 1, Len(s)), c)

\* str.replace(c, '')
Remove(s, c) == SelectSeq(s, LAMBDA x : x /= c)

DigitChars == <<"0", "1", "2", "3", "4", "5", "6", "7", "8", "9">>
IsDigit(c) == \E d \in 1..10 : DigitChars[d] = c
DigitVal(c) == (CHOOSE d \in 1..10 : DigitChars[d] = c) - 1

RECURSIVE DigitsVal(_)
DigitsVal(s) ==
    IF s = <<>> THEN 0
    ELSE 10 * DigitsVal(SubSeq(s, 1, Len(s) - 1)) + DigitVal(s[Len(s)])

\* float(s), for strings of whole numbers: ValueError on anything else
Float(s) ==
    IF s /= <<>> /\ \A i \in 1..Len(s) : IsDigit(s[i])
    THEN Ret(DigitsVal(s))
    ELSE Raise("ValueError")

\* str(n) as csv.writer writes a number
RECURSIVE Str(_)
Str(n) ==
    IF n < 10 THEN <<DigitChars[n + 1]>>
    ELSE Str(n \div 10) \o <<DigitChars[(n % 10) + 1]>>

\* mutant: a token without 'm' is read as seconds
parse_time_Lenient(time_str) == Float(Remove(Remove(time_str, "m"), "s"))

\* parse_time: minutes, seconds = time_str.split('m');
\* return float(minutes) * 60 + float(seconds.replace('s', ''))
parse_time(time_str) ==
    LET parts == SplitOn(time_str, "m")
    IN IF Len(parts) /= 2 THEN Raise("ValueError")
       ELSE LET minutes == Float(parts[1])
                seconds == Float(Remove(parts[2], "s"))
            IN IF minutes.exc /= "none" THEN minutes
               ELSE IF seconds.exc /= "none" THEN seconds
               ELSE Ret(minutes.val * 60 + seconds.val)

\* the empty dict, and d[k] = v
EmptyDict == <<>>
SetItem(d, k, v) == (k :> v) @@ d

\* parse_output line 58 / line 18: the dict the loop starts from
InitialResult(prog) ==
    IF prog = "log_analyzer" THEN SetItem(EmptyDict, "total", 0) ELSE EmptyDict

\* parse_output, the loop body for one line: the key the line sets and the
\* value parsed from its token
LineValue(line) ==
    IF line.key \in {"real", "user", "sys"} THEN parse_time(line.tok)
    ELSE Float(Remove(line.tok, "s"))

LineKey(line) == IF line.key = "roi" THEN "total" ELSE line.key

\* parse_output, the loop over the lines from line i on
RECURSIVE ParseLines(_, _, _)
ParseLines(lines, i, result) ==
    IF i > Len(lines) THEN Ret(result)
    ELSE IF lines[i].key \notin {"real", "user", "sys", "roi"}
    THEN ParseLines(lines, i + 1, result)
    ELSE LET v == LineValue(lines[i])
         IN IF v.exc /= "none" THEN v
            ELSE ParseLines(lines, i + 1, SetItem(result, LineKey(lines[i]), v.val))

\* parse_output(output) of program prog, on the text output
parse_output(prog, text) == ParseLines(text, 1, InitialResult(prog))

\* str.strip() of a text: the blank lines at both ends are dropped
RECURSIVE Strip(_)
Strip(s) ==
    IF s = <<>> THEN s
    ELSE IF s[1] = Blank THEN Strip(Tail(s))
    ELSE IF s[Len(s)] = Blank THEN Strip(SubSeq(s, 1, Len(s) - 1))
    ELSE s

\* what parse_raw_file hands to parse_output for one section (line 84 / 44)
SectionOutput(section) == Strip(SplitOn(section, Begin)[2])

\* parse_raw_file, the loop over the sections from section i on
RECURSIVE ParseSections(_, _, _, _)
ParseSections(prog, sections, i, acc) ==
    IF i > Len(sections) THEN Ret(acc)
    ELSE IF \A j \in 1..Len(sections[i]) : sections[i][j] /= Begin
    THEN ParseSections(prog, sections, i + 1, acc)
    ELSE LET r == parse_output(prog, SectionOutput(sections[i]))
         IN IF r.exc /= "none" THEN r
            ELSE IF DOMAIN r.val /= {}
            THEN ParseSections(prog, sections, i + 1, Append(acc, r.val))
            ELSE ParseSections(prog, sections, i + 1, acc)

\* parse_raw_file(file_path) on a file of the given content
parse_raw_file(prog, content) == ParseSections(prog, SplitOn(content, End), 1, <<>>)

(* ---- the csv files of the analyze phase ---- *)
\* a file: whether it exists and its rows; a row is a sequence of fields
NoFile == [exists |-> FALSE, rows |-> <<>>]
FileOf(rows) == [exists |-> TRUE, rows |-> rows]
StaleFile == FileOf(<<<<"stale">>>>)        \* the file of an earlier analysis

Keys == <<"total", "real", "user", "sys">>
ProcessedHeader == <<"iteration">> \o Keys
SummaryHeader == <<"">> \o Keys

\* save_processed_output, lines 113-114 / 67-68: one row per result from
\* result i on; result[k] of a missing key raises KeyError and the rows
\* written so far stay in the file
RECURSIVE WriteRows(_, _, _)
WriteRows(res, i, rows) ==
    IF i > Len(res) THEN Ret(rows)
    ELSE IF \E c \in 1..Len(Keys) : Keys[c] \notin DOMAIN res[i]
    THEN [exc |-> "KeyError", val |-> rows]
    ELSE WriteRows(res, i + 1,
             Append(rows, <<Str(i)>> \o [c \in 1..Len(Keys) |-> Str(res[i][Keys[c]])]))

\* save_processed_output: open(filename, 'w'), the header row, the data rows
save_processed_output(res) == WriteRows(res, 1, <<ProcessedHeader>>)

\* csv.DictReader: the column of the header that carries a name
Column(header, name) == CHOOSE c \in 1..Len(header) : header[c] = name

\* parse_processed_file: one dict of floats per row below the header
parse_processed_file(rows) ==
    [i \in 1..(Len(rows) - 1) |->
        [k \in {Keys[c] : c \in 1..Len(Keys)} |->
            Float(rows[i + 1][Column(rows[1], k)]).val]]

RECURSIVE Sum(_)
Sum(q) == IF q = <<>> THEN 0 ELSE q[1] + Sum(Tail(q))
Max(q) == CHOOSE x \in {q[i] : i \in 1..Len(q)} : \A i \in 1..Len(q) : q[i] <= x
Min(q) == CHOOSE x \in {q[i] : i \in 1..Len(q)} : \A i \in 1..Len(q) : x <= q[i]

\* statistics.mean(q) as the fraction sum / n
Mean(q) == [num |-> Sum(q), den |-> Len(q)]

\* statistics.stdev(q) if len(q) > 1 else 0, as the fraction under the root
Stdev(q) ==
    IF Len(q) > 1
    THEN [num |-> Len(q) * Sum([i \in 1..Len(q) |-> q[i] * q[i]]) - Sum(q) * Sum(q),
          den |-> Len(q) * (Len(q) - 1)]
    ELSE [num |-> 0, den |-> 1]

\* summary[k]: [r[k] for r in results]
ColumnOf(res, k) == [i \in 1..Len(res) |-> res[i][k]]

\* save_summary_output: open(filename, 'w') and the header row (lines 125-127
\* / 79-81), then the four rows; statistics.mean of no data raises
\* StatisticsError at line 128 / 82, after the header was written
save_summary_output(res) ==
    IF res = <<>> THEN [exc |-> "StatisticsError", val |-> <<SummaryHeader>>]
    ELSE Ret(<<SummaryHeader,
               <<"average">> \o [c \in 1..Len(Keys) |-> Mean(ColumnOf(res, Keys[c]))],
               <<"max">> \o [c \in 1..Len(Keys) |-> Max(ColumnOf(res, Keys[c]))],
               <<"min">> \o [c \in 1..Len(Keys) |-> Min(ColumnOf(res, Keys[c]))],
               <<"stdev">> \o [c \in 1..Len(Keys) |-> Stdev(ColumnOf(res, Keys[c]))]>>)

(* ---- the analyze phase as a state machine ---- *)
Programs == {"runtime_logger", "log_analyzer"}

\* the analyze phase is not running
AnaIdle ==
    /\ impl = "runtime_logger"
    /\ apc = "idle"
    /\ rawtext = <<>>
    /\ results = <<>>
    /\ processed = NoFile
    /\ summary = NoFile
    /\ aexc = "none"

\* one of the two programs is about to analyze a raw log of at most MaxItems
\* items, in a fresh directory or next to the files of an earlier analysis
AnaInit ==
    /\ impl \in Programs
    /\ apc = "delete"
    /\ rawtext \in SeqsUpTo(Items, MaxItems)
    /\ results = <<>>
    /\ \/ processed = NoFile /\ summary = NoFile
       \/ processed = StaleFile /\ summary = StaleFile
    /\ aexc = "none"

\* an exception leaves main
AnaRaise(e) ==
    /\ apc' = "raised"
    /\ aexc' = e

\* main, lines 169-170 / 114-115: delete_file(processed_file), delete_file(summary_file)
AnaDelete ==
    /\ apc = "delete"
    /\ processed' = NoFile
    /\ summary' = NoFile
    /\ apc' = "parse_raw"
    /\ UNCHANGED <<impl, rawtext, results, aexc, runvars, orgvars>>

\* main, line 171 / 117: raw_content = parse_raw_file(raw_file)
AnaParseRaw ==
    /\ apc = "parse_raw"
    /\ LET r == parse_raw_file(impl, rawtext)
       IN IF r.exc = "none"
          THEN /\ results' = r.val
               /\ apc' = "save_processed"
               /\ UNCHANGED aexc
          ELSE /\ AnaRaise(r.exc)
               /\ UNCHANGED results
    /\ UNCHANGED <<impl, rawtext, processed, summary, runvars, orgvars>>

\* main, line 172 / 118: save_processed_output(processed_file, benchmark, raw_content)
AnaSaveProcessed ==
    /\ apc = "save_processed"
    /\ LET r == save_processed_output(results)
       IN /\ processed' = FileOf(r.val)
          /\ IF r.exc = "none"
             THEN /\ apc' = "parse_processed"
                  /\ UNCHANGED aexc
             ELSE AnaRaise(r.exc)
    /\ UNCHANGED <<impl, rawtext, results, summary, runvars, orgvars>>

\* main, line 173 / 119: processed_content = parse_processed_file(processed_file)
AnaParseProcessed ==
    /\ apc = "parse_processed"
    /\ results' = parse_processed_file(processed.rows)
    /\ apc' = "save_summary"
    /\ UNCHANGED <<impl, rawtext, processed, summary, aexc, runvars, orgvars>>

\* main, line 174 / 120: save_summary_output(summary_file, processed_content)
AnaSaveSummary ==
    /\ apc = "save_summary"
    /\ LET r == save_summary_output(results)
       IN /\ summary' = FileOf(r.val)
          /\ IF r.exc = "none"
             THEN /\ apc' = "done"
                  /\ UNCHANGED aexc
             ELSE AnaRaise(r.exc)
    /\ UNCHANGED <<impl, rawtext, results, processed, runvars, orgvars>>

AnalyzeNext ==
    \/ AnaDelete
    \/ AnaParseRaw
    \/ AnaSaveProcessed
    \/ AnaParseProcessed
    \/ AnaSaveSummary

(***************************************************************************)
(* organize_log.py                                                         *)
(***************************************************************************)
(* ---- strings: names are sequences of characters ---- *)
\* sep.join(parts)
RECURSIVE Join(_, _)
Join(parts, sep) ==
    IF parts = <<>> THEN <<>>
    ELSE IF Len(parts) = 1 THEN parts[1]
    ELSE parts[1] \o sep \o Join(Tail(parts), sep)

\* s[a:b] for 0 <= a <= b
Slice(s, a, b) == SubSeq(s, a + 1, IF b < Len(s) THEN b ELSE Len(s))

\* s[a:]
SliceFrom(s, a) == SubSeq(s, a + 1, Len(s))

\* s.endswith(t)
EndsWith(s, t) == Len(t) <= Len(s) /\ SubSeq(s, Len(s) - Len(t) + 1, Len(s)) = t

\* s.rfind(c) for a character c, counted from 0; -1 when c is not in s
RFind(s, c) ==
    IF \A i \in 1..Len(s) : s[i] /= c THEN -1
    ELSE (CHOOSE i \in 1..Len(s) : s[i] = c /\ \A j \in (i + 1)..Len(s) : s[j] /= c) - 1

\* s[:n] for any integer n, as Python cuts it
Until(s, n) == IF n >= 0 THEN Slice(s, 0, n) ELSE SubSeq(s, 1, Len(s) + n)

Dash == <<"-">>
ResultTxt == <<"-", "r", "e", "s", "u", "l", "t", ".", "t", "x", "t">>     \* '-result.txt'
ErrTxt == <<"-", "e", "r", "r", ".", "t", "x", "t">>                       \* '-err.txt'
UsageCsv == <<"-", "u", "s", "a", "g", "e", ".", "c", "s", "v">>           \* '-usage.csv'
RawTxt == <<"-", "r", "a", "w", ".", "t", "x", "t">>                       \* '-raw.txt'
CpuusageCsv == <<"-", "c", "p", "u", "u", "s", "a", "g", "e", ".", "c", "s", "v">>   \* '-cpuusage.csv'

(* ---- the fields of the file names that are explored ---- *)
DateField == <<"2", "0", "2", "4", "0", "5", "1", "7">>     \* 20240517
TimeField == <<"1", "0", "3", "0">>                         \* 1030
X264 == <<"x", "2", "6", "4">>
Vips == <<"v", "i", "p", "s">>
Kernels == {<<<<"k", "6">>, <<"r", "t">>>>, <<X264, <<"r", "t">>>>}     \* k6-rt, x264-rt
BenchmarkNames == {X264, Vips}
ThreadNums == {<<"4">>, <<"8">>}
RunField == <<"1">>     \* the field the result files carry after the thread number

\* the head <date>-<time>-<kernel>-<benchmark>-<threads> followed by the
\* fields of rest
HeadOf(kernel, benchmark, threads, rest) ==
    Join(<<DateField, TimeField>> \o kernel \o <<benchmark, threads>> \o rest, Dash)

\* the heads of the result files that are explored: with and without a field
\* after the thread number, and one with no dash at all
CandidateHeads ==
    {HeadOf(k, b, n, rest) :
        k \in Kernels, b \in BenchmarkNames, n \in ThreadNums, rest \in {<<>>, <<RunField>>}}
    \cup {<<"x">>}

(* ---- the two directories ---- *)
File(name, size) == [name |-> name, size |-> size]
Exists(name) == \E f \in rdir : f.name = name
SizeOf(name) == (CHOOSE f \in rdir : f.name = name).size

\* a file under log_dir and the file of results_dir it is a copy of
Copy(dir, name, src) == [dir |-> dir, name |-> name, from |-> src]

\* shutil.copy(src, dst): dst is created or overwritten
CopyInto(files, dir, name, src) ==
    {f \in files : ~(f.dir = dir /\ f.name = name)} \cup {Copy(dir, name, src)}

\* logging.error by function fn while main is at entry i
ErrorLog(i, fn) == <<i, fn>>

\* mutant: an error log of any size counts as empty
is_empty_file_AnySize(path) == [ret |-> Exists(path), logged |-> ~Exists(path)]

\* is_empty_file: os.path.getsize(file_path) == 0; when getsize raises the
\* error is logged and False returned
is_empty_file(path) ==
    IF Exists(path) THEN [ret |-> SizeOf(path) = 0, logged |-> FALSE]
    ELSE [ret |-> FALSE, logged |-> TRUE]

\* parse_filename_head, lines 91-108
parse_filename_head(head) ==
    LET parts == SplitOn(head, "-")
        n == Len(parts)
    IN IF n < 3 THEN Raise("IndexError")         \* parts[1] or parts[-3]
       ELSE LET date == Slice(parts[1], 0, 4) \o Dash \o Slice(parts[1], 4, 6)
                            \o Dash \o SliceFrom(parts[1], 6)
                time == Slice(parts[2], 0, 2) \o <<":">> \o SliceFrom(parts[2], 2)
                kernel_parts == SubSeq(parts, 3, n - 3)
                benchmark_name == parts[n - 2]
                thread_num == parts[n - 1]
            IN IF benchmark_name \in Range(kernel_parts) THEN Raise("AssertionError")
               ELSE Ret([date |-> date, time |-> time,
                         kernel_name |-> Join(kernel_parts, Dash),
                         benchmark_name |-> benchmark_name, thread_num |-> thread_num])

\* main, line 37: the name of the target directory under log_dir
TargetDir(date, thread_num) == date \o <<"-", "t">> \o thread_num

\* main, lines 44 and 54: the name of a destination file
DestName(kernel_name, benchmark_name, suffix) ==
    kernel_name \o <<"-", "-">> \o benchmark_name \o suffix

\* mutant: the usage file is looked for under the whole head
UsageOf_SameHead(head) == head \o UsageCsv

\* main, lines 51-53: the usage file that goes with a head
UsageOf(head) == Until(head, RFind(head, "-")) \o UsageCsv

\* organize_log is about to run on a results directory with at most
\* MaxEntries result files, each with or without an error log, empty or not,
\* and with or without usage files
OrgInit ==
    /\ \E heads \in SUBSET CandidateHeads :
          /\ Cardinality(heads) <= MaxEntries
          /\ \E errs \in [heads -> {"missing", "empty", "full"}] :
             \E usages \in SUBSET ({UsageOf(h) : h \in heads} \cup {h \o UsageCsv : h \in heads}) :
                rdir = {File(h \o ResultTxt, 1) : h \in heads}
                       \cup {File(h \o ErrTxt, IF errs[h] = "empty" THEN 0 ELSE 1) :
                                h \in {x \in heads : errs[x] /= "missing"}}
                       \cup {File(u, 1) : u \in usages}
    /\ listing = <<>>
    /\ opc = "start"
    /\ oidx = 0
    /\ ldirs = {}
    /\ lfiles = {}
    /\ ologs = <<>>

\* get_filename_heads: the names of results_dir that end with '-result.txt',
\* cut before it
FilenameHeads ==
    {Until(f.name, Len(f.name) - Len(ResultTxt)) : f \in {g \in rdir : EndsWith(g.name, ResultTxt)}}

\* main, lines 18-23: the log directory, then the heads in the order of os.listdir
OrgStart ==
    /\ opc = "start"
    /\ \E order \in [1..Cardinality(FilenameHeads) -> FilenameHeads] :
          /\ \A i, j \in DOMAIN order : i /= j => order[i] /= order[j]
          /\ listing' = order
    /\ oidx' = 1
    /\ opc' = "loop"
    /\ UNCHANGED <<rdir, ldirs, lfiles, ologs, runvars, anavars>>

\* main, lines 27-29: the error log is not empty, or cannot be read
OrgSkip(checked) ==
    /\ ologs' = ologs \o (IF checked.logged THEN <<ErrorLog(oidx, "is_empty_file")>> ELSE <<>>)
                      \o <<ErrorLog(oidx, "main")>>
    /\ UNCHANGED <<ldirs, lfiles>>

\* main, lines 60-61 after parse_filename_head raised; it has logged an IndexError itself
OrgParseFailed(exc) ==
    /\ ologs' = ologs \o (IF exc = "IndexError"
                          THEN <<ErrorLog(oidx, "parse_filename_head")>> ELSE <<>>)
                      \o <<ErrorLog(oidx, "main")>>
    /\ UNCHANGED <<ldirs, lfiles>>

\* main, lines 37-58: the target directory, the copy of the result file, the
\* copy of the usage file; a missing usage file raises and is logged (line 61)
OrgCopy(head, p) ==
    LET dir == TargetDir(p.date, p.thread_num)
        copied == CopyInto(lfiles, dir, DestName(p.kernel_name, p.benchmark_name, RawTxt),
                           head \o ResultTxt)
    IN /\ ldirs' = ldirs \cup {dir}
       /\ IF Exists(UsageOf(head))
          THEN /\ lfiles' = CopyInto(copied, dir,
                                DestName(p.kernel_name, p.benchmark_name, CpuusageCsv),
                                UsageOf(head))
               /\ UNCHANGED ologs
          ELSE /\ lfiles' = copied
               /\ ologs' = Append(ologs, ErrorLog(oidx, "main"))

\* main, lines 25-61: the body of the loop for one filename head
OrgEntry ==
    /\ opc = "loop"
    /\ oidx <= Len(listing)
    /\ LET head == listing[oidx]
           checked == is_empty_file(head \o ErrTxt)
           parsed == parse_filename_head(head)
       IN IF ~checked.ret THEN OrgSkip(checked)
          ELSE IF parsed.exc /= "none" THEN OrgParseFailed(parsed.exc)
          ELSE OrgCopy(head, parsed.val)
    /\ oidx' = oidx + 1
    /\ UNCHANGED <<rdir, listing, opc, runvars, anavars>>

\* main, line 25: the loop is over
OrgDone ==
    /\ opc = "loop"
    /\ oidx > Len(listing)
    /\ opc' = "done"
    /\ UNCHANGED <<rdir, listing, oidx, ldirs, lfiles, ologs, runvars, anavars>>

OrganizeNext == OrgStart \/ OrgEntry \/ OrgDone

\* organize_log is not running
OrgIdle ==
    /\ rdir = {}
    /\ listing = <<>>
    /\ opc = "idle"
    /\ oidx = 0
    /\ ldirs = {}
    /\ lfiles = {}
    /\ ologs = <<>>

(***************************************************************************)
(* The specifications                                                      *)
(***************************************************************************)
\* runtime_logger runs; the off-line programs are not running
Init == RunInit /\ AnaIdle /\ OrgIdle

Next ==
    \/ MainStep
    \/ WorkloadStep
    \/ \E t \in Threads : SamplerStep(t)
    \/ Tick

Spec == Init /\ [][Next]_vars

\* the threads and processes are scheduled by the OS and time passes
FairSpec ==
    /\ Spec
    /\ WF_vars(MainStep)
    /\ WF_vars(WorkloadStep)
    /\ \A t \in Threads : WF_vars(SamplerStep(t))
    /\ WF_vars(Tick)

\* runtime_logger is not running
RunIdle ==
    /\ RunInit
    /\ mode = "analyze"
    /\ raw = [b \in Benchmarks |-> <<>>]

AnalyzeInit == RunIdle /\ AnaInit /\ OrgIdle

\* the analyze phase of either program on one raw log
AnalyzeSpec == AnalyzeInit /\ [][AnalyzeNext]_vars

OrganizeInit == RunIdle /\ AnaIdle /\ OrgInit

\* organize_log on one results directory
OrganizeSpec == OrganizeInit /\ [][OrganizeNext]_vars

TypeOK ==
    /\ mode \in {"run", "analyze", "both"}
    /\ bench \in 1..(NumBenchmarks + 1)
    /\ iter \in 0..Iterations
    /\ trial \in 0..(NumBenchmarks * Iterations)
    /\ wpid \in 0..(NumBenchmarks * Iterations)
    /\ wstate \in {"none", "spawning", "running", "exited"}
    /\ wleft \in 0..MaxLife
    /\ kids \subseteq Children
    /\ \A t \in Threads : ssleep[t] \in 0..(IF OneSecond > Interval THEN OneSecond ELSE Interval)

(***************************************************************************)
(* Properties                                                              *)
(***************************************************************************)

\* the monitor thread started for the k-th workload invocation
Started(t) == spc[t] /= "idle"

\* C1: in every trial, once the workload invocation has terminated the
\* monitor thread eventually terminates, so monitor_thread.join() returns.
C1_SamplerTerminates ==
    \A t \in Threads :
        [](Started(t) /\ wpid = t /\ wstate = "exited" => <>ThreadDead(t))

\* the invocation number of iteration i (from 0) of benchmark b
InvocationOf(b, i) == (b - 1) * Iterations + i + 1

\* the raw log of benchmark b after its first n iterations have been saved
RECURSIVE Outputs(_, _)
Outputs(b, n) ==
    IF n = 0 THEN <<>>
    ELSE Outputs(b, n - 1) \o <<Out(InvocationOf(b, n - 1)), NL>>

\* run_benchmark_once has returned the output of invocation t to repeat_benchmark
Handed(t) ==
    \/ mpc = "save" /\ output = Out(t)
    \/ \E b \in Benchmarks : Out(t) \in Range(raw[b])

\* the data rows of thread t in its sink
RowsBy(t) ==
    IF slog[t] = 0 THEN 0
    ELSE Cardinality({i \in 1..Len(sink[slog[t]]) : sink[slog[t]][i] = Row(t)})

WroteTo(t) == \E b \in Benchmarks : \E r \in Range(sink[b]) : r.by = t

GpgPcs == {"gpg_process", "gpg_children", "gpg_names", "gpg_return"}
LoopPcs == {"mon_while", "mon_is_running", "mon_cpu_percent", "mon_sleep"}

\* C2: when the workload invocation of iteration k exits with non-zero status
\* the error is propagated, nothing is appended for iteration k and no later
\* iteration is spawned: the raw log holds exactly the outputs of 1..k-1.
C2_FailedTrialAborts ==
    (wstate = "exited" /\ wstatus /= 0) =>
        /\ mpc \in {"wait", "raised"}
        /\ raw[bench] = Outputs(bench, iter)
        /\ wpid = InvocationOf(bench, iter)

C2_Witness ==
    /\ mpc = "raised"
    /\ iter = 1
    /\ raw[bench] = <<Out(wpid - 1), NL>>

\* C3: whenever run_benchmark_once has returned captured output, the monitor
\* thread of that trial has terminated and its sink is closed, and from then
\* on the thread writes no row to the sink.
C3_JoinedBeforeReturn ==
    /\ [](\A t \in Threads : Handed(t) => (spc[t] = "done" /\ sfile[t] = "closed"))
    /\ [][\A t \in Threads : Handed(t) => RowsBy(t)' <= RowsBy(t)]_vars

C3_Witness ==
    /\ mpc = "save"
    /\ output = Out(trial)
    /\ RowsBy(trial) >= 1

\* C4: when the workload exits with non-zero status, the monitor thread is
\* joined before the failure leaves run_benchmark_once.
C4_JoinedOnFailure ==
    mpc = "raised" => ThreadDead(trial)

\* C5: in every trial the workload invocation is issued first and the monitor
\* thread is started only afterwards.
C5_WorkloadFirst ==
    \A t \in Threads : Started(t) => wpid >= t

\* C5 as amended: in every trial the monitor thread is started first; the
\* workload invocation is never issued while the trial's thread is not started.
C5_SamplerFirst ==
    /\ wpid <= trial
    /\ \A k \in 1..wpid : Started(k)

C5_Witness ==
    /\ wpid = 2
    /\ wstate = "spawning"
    /\ Started(2)

\* C6: trials are strictly sequential: at most one workload invocation and at
\* most one monitor thread are alive, and a trial's thread and workload are
\* started only after the earlier trial's workload has terminated and its
\* thread has been joined.
C6_Sequential ==
    /\ Cardinality({t \in Threads : Started(t) /\ ~ThreadDead(t)}) <= 1
    /\ \A t \in Threads : t < trial => ThreadDead(t)
    /\ \A t \in Threads : t > trial => ~Started(t)
    /\ wstate \in {"spawning", "running"} => wpid = trial
    /\ mpc \in {"start_thread", "exec"} => wstate \in {"none", "exited"}

C6_Witness ==
    /\ trial = 2
    /\ wstate = "running"
    /\ spc[2] = "mon_sleep"
    /\ spc[1] = "done"

\* C7: when open(log_file) fails in monitor_cpu_usage the trial does not
\* complete normally: its output is not returned and not appended.
C7_OpenFailureFatal ==
    \A t \in Threads : sopenfail[t] => ~Handed(t)

\* C7 as amended: a failed open ends only the sampling of that trial: the
\* error is logged, the thread terminates without writing to the sink, and
\* the trial goes on as the exit status says: once a later trial has started
\* or the run has ended normally, its output is in the raw log.
C7_OpenFailureConfined ==
    \A t \in Threads : sopenfail[t] =>
        /\ ThreadDead(t)
        /\ <<"monitor_cpu_usage", t>> \in errors
        /\ ~WroteTo(t)
        /\ sfile[t] = "closed"
        /\ (t < trial \/ mpc = "exit") => Out(t) \in Range(raw[slog[t]])

C7_Witness ==
    \E t \in Threads : sopenfail[t] /\ Out(t) \in Range(raw[slog[t]])

Abs(n) == IF n < 0 THEN 0 - n ELSE n

\* C8: the number of data rows the sampler writes for a trial differs from
\* floor(L / I) by at most 1, L the lifetime of the trial's workload.
C8_RowsWithinOne ==
    \A t \in Threads :
        (ThreadDead(t) /\ wpid = t /\ wstate = "exited") =>
            Abs(RowsBy(t) - (wlife \div Interval)) <= 1

\* C8 as amended: the number of data rows the sampler writes for a trial is
\* at most floor(L / I) + 1.
C8_RowsAtMost ==
    \A t \in Threads :
        (Started(t) /\ wpid = t /\ wstate \in {"running", "exited"}) =>
            RowsBy(t) <= (wlife \div Interval) + 1

C8_Witness ==
    \E t \in Threads :
        /\ ThreadDead(t) /\ wpid = t /\ wstate = "exited"
        /\ wlife >= Interval
        /\ RowsBy(t) = (wlife \div Interval) + 1

\* get_process_group is about to read the target (Process(pid), children(),
\* or the name() of the target)
GpgReadsTarget(t) ==
    \/ spc[t] \in {"gpg_process", "gpg_children"}
    \/ spc[t] = "gpg_names" /\ sgroup[t][sidx[t]] = Target

C10_OnlyTargetEndsLoop ==
    [][\A t \in Threads :
          (spc[t] \in LoopPcs /\ spc'[t] = "done") => ~PidExists(spid[t])]_vars

\* the shape of a cpuusage csv: nothing, or what an earlier run left, or one
\* header row followed by data rows of as many fields as the header
SinkShape(s) ==
    \/ s = <<>>
    \/ s = <<StaleRow>>
    \/ /\ s[1].kind = "header"
       /\ s[1].fields = 1 + NumCpus
       /\ \A i \in 2..Len(s) : s[i].kind = "row" /\ s[i].fields = s[1].fields

\* C17: in every reachable state the sink is empty or untouched, or starts
\* with exactly one header row of 1 + N fields, N the core count, the header
\* precedes every data row and every data row has exactly 1 + N fields.
C17_SinkShape == \A b \in Benchmarks : SinkShape(sink[b])

C17_Witness ==
    \E b \in Benchmarks :
        /\ Len(sink[b]) >= 3
        /\ sink[b][1].kind = "header"
        /\ sink[b][3].kind = "row"

\* p is a prefix of q
IsPrefix(p, q) == Len(p) <= Len(q) /\ SubSeq(q, 1, Len(p)) = p

\* main is inside repeat_benchmark
InRepeat == mpc \in {"repeat", "start_thread", "exec", "wait", "join", "save", "raised"}

\* C18: during repeat_benchmark the raw log is append-only: after k successful
\* iterations it is the concatenation, in order, of the k outputs each
\* followed by one newline, and every save_raw_output leaves the previous
\* content as an unchanged prefix.
C18_RawAppendOnly ==
    /\ [](InRepeat => raw[bench] = Outputs(bench, iter))
    /\ [][InRepeat => \A b \in Benchmarks : IsPrefix(raw[b], raw'[b])]_vars

C18_Witness ==
    /\ mpc = "repeat"
    /\ iter = Iterations
    /\ Len(raw[bench]) = 2 * Iterations
    /\ raw[bench] = Outputs(bench, Iterations)

\* C20: when get_process_group has returned [], monitor_cpu_usage logs an
\* error and returns without opening the sink: the sink file is left as it
\* was, and the workload and main's wait for it are not affected.
C20_EmptyGroupAborts ==
    [][\A t \in Threads :
          (spc[t] = "mon_group" /\ sgroup[t] = <<>> /\ spc'[t] /= spc[t]) =>
              /\ spc'[t] = "done"
              /\ <<"monitor_cpu_usage", t>> \in errors'
              /\ sink' = sink
              /\ sfile'[t] = "closed"
              /\ mpc' = mpc
              /\ UNCHANGED workvars]_vars

C20_Witness ==
    \E t \in Threads :
        /\ spc[t] = "done"
        /\ <<"get_process_group", t>> \in errors
        /\ <<"monitor_cpu_usage", t>> \in errors
        /\ sink[slog[t]] = <<StaleRow>>
        /\ wpid = t
        /\ wstate = "exited"

\* C19: the loop checks the target before each sleep: after the target has
\* exited the sampler writes at most one further row, and the loop test that
\* finds the target gone starts no sleep and writes nothing: the thread leaves
\* the loop and the file is closed.
C19_AtMostOneLateRow ==
    /\ [](\A t \in Threads : late[t] <= 1)
    /\ [][\A t \in Threads :
            (spc[t] = "mon_while" /\ Exited(spid[t]) /\ spc'[t] /= spc[t]) =>
                /\ spc'[t] = "done"
                /\ sfile'[t] = "closed"
                /\ sink' = sink]_vars

C19_Witness ==
    \E t \in Threads :
        /\ late[t] = 1
        /\ spc[t] = "mon_while"
        /\ sfile[t] = "open"
        /\ RowsBy(t) >= 2

\* the outputs parse_raw_file hands to parse_output for a raw log, in order
HandedOutputs(text) ==
    LET secs == SelectSeq(SplitOn(text, End), LAMBDA s : Begin \in Range(s))
    IN [i \in 1..Len(secs) |-> SectionOutput(secs[i])]

HasLine(out, k) == \E i \in 1..Len(out) : out[i].key = k

\* an output with well-formed real, user and sys lines and no ROI line
MissingRoi(out) ==
    /\ HasLine(out, "real") /\ HasLine(out, "user") /\ HasLine(out, "sys")
    /\ ~HasLine(out, "roi")
    /\ RealNoM \notin Range(out)

\* the analyze phase has written the processed file
ProcessedWritten == apc \in {"parse_processed", "save_summary", "done"}

\* the data rows of the processed file whose total is 0
ZeroTotalRows ==
    {i \in 2..Len(processed.rows) :
        processed.rows[i][Column(ProcessedHeader, "total")] = Str(0)}

\* C11: in both programs parse_output, on an output with real, user and sys
\* lines and no ROI line, returns total = 0 with real, user and sys
\* populated, and the analyze phase writes that trial as a row with total 0:
\* it does not fail on it and does not drop it.
C11_MissingRoiIsZero ==
    LET outs == HandedOutputs(rawtext)
        miss == {i \in 1..Len(outs) : MissingRoi(outs[i])}
    IN /\ \A i \in miss :
             LET r == parse_output(impl, outs[i])
             IN /\ r.exc = "none"
                /\ DOMAIN r.val = {"total", "real", "user", "sys"}
                /\ r.val["total"] = 0
       /\ (miss /= {} /\ apc = "raised") => aexc /= "KeyError"
       /\ (miss /= {} /\ ProcessedWritten) => Cardinality(ZeroTotalRows) >= Cardinality(miss)

\* C11 for log_analyzer alone
C11_LogAnalyzer == impl = "log_analyzer" => C11_MissingRoiIsZero

\* the index of the first item c of s
First(s, c) == CHOOSE j \in 1..Len(s) : s[j] = c /\ \A h \in 1..(j - 1) : s[h] /= c

\* the outputs of a raw log as the claim has them: for every end-marker
\* that closes a begin-marker, the text strictly between the two
PairedOutputs(text) ==
    LET chunks == SplitOn(text, End)
        closed == SelectSeq(SubSeq(chunks, 1, Len(chunks) - 1),
                            LAMBDA s : Begin \in Range(s))
    IN [i \in 1..Len(closed) |->
           SubSeq(closed[i], First(closed[i], Begin) + 1, Len(closed[i]))]

\* C12: parse_raw_file hands to parse_output exactly the text strictly between
\* a begin-marker and the next end-marker: text after a begin-marker that no
\* end-marker follows is not parsed, nothing outside a pair reaches
\* parse_output, and there are as many results as begin/end pairs.
C12_OnlyPairedText ==
    LET paired == PairedOutputs(rawtext)
    IN /\ HandedOutputs(rawtext) = [i \in 1..Len(paired) |-> Strip(paired[i])]
       /\ apc = "save_processed" => Len(results) = Len(paired)

\* the outputs handed to parse_output that hold a real line whose token has no 'm'
NoMOutputs ==
    LET outs == HandedOutputs(rawtext)
    IN {i \in 1..Len(outs) : RealNoM \in Range(outs[i])}

\* C13: a real, user or sys line whose duration token has no 'm' makes
\* parse_output fail with an error that leaves parse_raw_file: no result is
\* produced and, the old files having been deleted, no processed or summary
\* file is written from that log.
C13_NoMinutesIsFatal ==
    LET outs == HandedOutputs(rawtext)
    IN NoMOutputs /= {} =>
          /\ \A i \in NoMOutputs : parse_output(impl, outs[i]).exc = "ValueError"
          /\ parse_raw_file(impl, rawtext).exc = "ValueError"
          /\ apc \in {"delete", "parse_raw", "raised"}
          /\ results = <<>>
          /\ apc /= "delete" => processed = NoFile /\ summary = NoFile
          /\ apc = "raised" => aexc = "ValueError"

C13_Witness ==
    /\ apc = "raised"
    /\ aexc = "ValueError"
    /\ Len(HandedOutputs(rawtext)) = 2
    /\ NoMOutputs = {2}
    /\ processed = NoFile
    /\ summary = NoFile

\* C14: save_summary_output on an empty sequence of results fails with an
\* error, writes no summary of zeros, and fails before any output has been
\* written to the summary file.
C14_EmptyFailsFast ==
    /\ save_summary_output(<<>>).exc /= "none"
    /\ (apc = "raised" /\ aexc = "StatisticsError") => summary.rows = <<>>

\* the error log that goes with a head exists and is not empty
HasErrors(head) == Exists(head \o ErrTxt) /\ SizeOf(head \o ErrTxt) > 0

\* the loop of organize_log.main is at an entry and this step handles it
HandlesEntry == opc = "loop" /\ oidx <= Len(listing) /\ oidx' = oidx + 1

\* the logging.error calls made for entry i
ErrorsFor(i) == Cardinality({j \in 1..Len(ologs) : ologs[j][1] = i})

\* entry i has an empty error log and a head parse_filename_head accepts
Processable(i) ==
    /\ Exists(listing[i] \o ErrTxt)
    /\ SizeOf(listing[i] \o ErrTxt) = 0
    /\ parse_filename_head(listing[i]).exc = "none"

\* the raw file of entry i is in its target directory
RawCopied(i) ==
    LET p == parse_filename_head(listing[i]).val
    IN /\ TargetDir(p.date, p.thread_num) \in ldirs
       /\ \E f \in lfiles :
             /\ f.dir = TargetDir(p.date, p.thread_num)
             /\ f.name = DestName(p.kernel_name, p.benchmark_name, RawTxt)

\* C15: for a result file whose '-err.txt' exists and is not empty main copies
\* nothing, makes no directory and logs exactly one error, and it goes on to
\* process every other entry.
C15_ErrorLogSkipsEntry ==
    /\ [][(HandlesEntry /\ HasErrors(listing[oidx])) =>
             /\ lfiles' = lfiles
             /\ ldirs' = ldirs
             /\ ologs' = Append(ologs, ErrorLog(oidx, "main"))
             /\ opc' = "loop"]_vars
    /\ [](opc = "done" =>
             \A i \in 1..Len(listing) :
                 /\ HasErrors(listing[i]) => ErrorsFor(i) = 1
                 /\ Processable(i) => RawCopied(i))

C15_Witness ==
    /\ opc = "done"
    /\ Len(listing) = 2
    /\ HasErrors(listing[1])
    /\ ErrorsFor(1) = 1
    /\ Processable(2)
    /\ RawCopied(2)
    /\ Cardinality(ldirs) = 1

\* 2024-05-17, the date of DateField as the target directory carries it
ExpectedDate == <<"2", "0", "2", "4", "-", "0", "5", "-", "1", "7">>

\* the entry handled by this step has an empty error log, and after the step
\* its result file is at <date>-t<threads>/<kernel>--<benchmark>-raw.txt and
\* the usage file, if it exists, at <kernel>--<benchmark>-cpuusage.csv
CopiedAs(kernel, benchmark, threads, usage) ==
    LET head == listing[oidx]
        dir == ExpectedDate \o <<"-", "t">> \o threads
        dest == Join(kernel, Dash) \o <<"-", "-">> \o benchmark
    IN /\ dir \in ldirs'
       /\ Copy(dir, dest \o RawTxt, head \o ResultTxt) \in lfiles'
       /\ Exists(usage) => Copy(dir, dest \o CpuusageCsv, usage) \in lfiles'

EmptyErrorLog(head) == Exists(head \o ErrTxt) /\ SizeOf(head \o ErrTxt) = 0

\* C16: a result file <date>-<time>-<kernel>-<benchmark>-<threads>-result.txt
\* with an empty error log is copied to <YYYY-MM-DD>-t<threads>/
\* <kernel>--<benchmark>-raw.txt, and <same head>-usage.csv to
\* <kernel>--<benchmark>-cpuusage.csv.
C16_HeadEndsWithThreads ==
    [][\A k \in Kernels, b \in BenchmarkNames, n \in ThreadNums :
          (HandlesEntry /\ listing[oidx] = HeadOf(k, b, n, <<>>)
             /\ EmptyErrorLog(listing[oidx]))
          => CopiedAs(k, b, n, listing[oidx] \o UsageCsv)]_vars

\* C16 as amended: the head of a result file carries one more field after the
\* thread number, <date>-<time>-<kernel>-<benchmark>-<threads>-<run>; with an
\* empty error log and a benchmark name that is no part of the kernel name
\* the file is copied to <YYYY-MM-DD>-t<threads>/<kernel>--<benchmark>-raw.txt,
\* and the usage file <date>-<time>-<kernel>-<benchmark>-<threads>-usage.csv
\* (the head without its last field), if it exists, to
\* <kernel>--<benchmark>-cpuusage.csv.
C16_HeadEndsWithRunField ==
    [][\A k \in Kernels, b \in BenchmarkNames, n \in ThreadNums :
          (HandlesEntry /\ listing[oidx] = HeadOf(k, b, n, <<RunField>>)
             /\ EmptyErrorLog(listing[oidx]) /\ b \notin Range(k))
          => CopiedAs(k, b, n, HeadOf(k, b, n, <<>>) \o UsageCsv)]_vars

C16_Witness ==
    \E k \in Kernels, b \in BenchmarkNames, n \in ThreadNums :
        LET dir == ExpectedDate \o <<"-", "t">> \o n
            dest == Join(k, Dash) \o <<"-", "-">> \o b
        IN /\ opc = "done"
           /\ Len(k) = 2
           /\ listing = <<HeadOf(k, b, n, <<RunField>>)>>
           /\ ldirs = {dir}
           /\ lfiles = {Copy(dir, dest \o RawTxt, listing[1] \o ResultTxt),
                        Copy(dir, dest \o CpuusageCsv, HeadOf(k, b, n, <<>>) \o UsageCsv)}

\* the sink of benchmark b holds the header and the rows of thread t alone
SinkOf(b, t) ==
    /\ sink[b] /= <<>>
    /\ sink[b][1] = Header(t)
    /\ \A i \in 2..Len(sink[b]) : sink[b][i] = Row(t)

\* the threads of benchmark b that have got to open(log_file, mode='w'):
\* those whose open failed, and the one whose header is in the sink
ReachedOpen(b) ==
    {t \in Threads : slog[t] = b /\ (sopenfail[t] \/ Header(t) \in Range(sink[b]))}

Latest(S) == CHOOSE t \in S : \A u \in S : u <= t

\* C21: the sink is not accumulated across iterations: it holds one header
\* and only the rows of the last iteration whose sampler reached the
\* sink-open step; the rows of earlier iterations are gone.
C21_LastReachedOwnsSink ==
    \A b \in Benchmarks :
        ReachedOpen(b) /= {} => SinkOf(b, Latest(ReachedOpen(b)))

\* C21 as amended: the sink holds one header and only the rows of the last
\* iteration whose sampler opened the sink: a successful open leaves nothing
\* but the new header, only the thread that has the sink open changes it, and
\* a sampler whose open fails leaves the content of the earlier opener.
C21_LastOpenerOwnsSink ==
    /\ [](\A b \in Benchmarks :
             \/ sink[b] \in {<<>>, <<StaleRow>>}
             \/ /\ slog[sink[b][1].by] = b
                /\ SinkOf(b, sink[b][1].by))
    /\ [][\A t \in Threads :
             (sfile[t] = "closed" /\ sfile'[t] = "open") =>
                 sink'[slog[t]] = <<Header(t)>>]_vars
    /\ [][\A b \in Benchmarks :
             sink'[b] /= sink[b] =>
                 /\ \E t \in Threads : slog[t] = b /\ sfile'[t] = "open"
                 /\ sink[b] \notin {<<>>, <<StaleRow>>} =>
                        sink'[b][1].by >= sink[b][1].by]_vars

C21_Witness ==
    \E b \in Benchmarks :
        /\ mpc = "repeat"
        /\ bench = b
        /\ iter = Iterations
        /\ SinkOf(b, InvocationOf(b, Iterations - 1))
        /\ Len(sink[b]) >= 2
        /\ raw[b] = Outputs(b, Iterations)

====
